---- MODULE Spec2Model ----
(***************************************************************************)
(* daywise (app.py): the task / subtask store of the Flask application,    *)
(* its route handlers as operations on the store, and the display sort.    *)
(*                                                                         *)
(* Strings that the code orders or parses (descriptions, the numeric form  *)
(* fields) are sequences of character codes; strings that the code only    *)
(* compares for equality (names, colours, enum values, usernames) are TLA+ *)
(* strings.  A form is a function from the names of the fields the request *)
(* carries to their values: request.form.get of a missing field is None.   *)
(* None is the empty tuple and a present value v is <<v>> (Get below).     *)
(***************************************************************************)
EXTENDS Integers, Sequences, FiniteSets, TLC

VARIABLES users, categories, tasks, subtasks, last, ncmds, trip, sortIn, sortOut, reqs

vars == <<users, categories, tasks, subtasks, last, ncmds, trip, sortIn, sortOut, reqs>>

\* ------------------------------------------------------------------ bounds

\* Requests handled in one behaviour (the first that changes anything is a
\* registration).
MaxCmds == 3

\* Length of the task list handed to sort_tasks in SpecSort.
MaxLen == 3

\* ------------------------------------------------------- values and strings

\* SQL NULL / Python None in an integer column.  Primary keys start at 1 and
\* every order key a handler stores is >= 1, so -1 is never a stored integer.
NULL == -1

None == <<>>

Some(v) == <<v>>

Max(S) == CHOOSE m \in S : \A x \in S : x <= m

Min(S) == CHOOSE m \in S : \A x \in S : m <= x

Range(f) == {f[i] : i \in DOMAIN f}

\* request.form.get(k): None when the request does not carry the field.
Get(form, k) == IF k \in DOMAIN form THEN Some(form[k]) ELSE None

\* Python truthiness of an optional text (codes): None and '' are falsy.
Falsy(v) == v = None \/ v[1] = <<>>

\* Python truthiness of an optional name (TLA+ string).
FalsyName(v) == v = None \/ v[1] = ""

IsDigit(c) == c >= 48 /\ c <= 57

\* The decimal literals int() accepts among the texts of the model: an
\* optional minus sign and at least one digit.
IsIntLiteral(s) ==
    LET d == IF Len(s) > 0 /\ s[1] = 45 THEN Tail(s) ELSE s
    IN  Len(d) > 0 /\ \A i \in 1..Len(d) : IsDigit(d[i])

RECURSIVE DigitsValue(_)
DigitsValue(d) ==
    IF d = <<>> THEN 0
    ELSE 10 * DigitsValue(SubSeq(d, 1, Len(d) - 1)) + (d[Len(d)] - 48)

\* int(s) for a decimal literal s.
ParseInt(s) == IF s[1] = 45 THEN 0 - DigitsValue(Tail(s)) ELSE DigitsValue(s)

\* str.lower() on the ASCII codes the model uses.
LowerChar(c) == IF c >= 65 /\ c <= 90 THEN c + 32 ELSE c

Lower(s) == [i \in 1..Len(s) |-> LowerChar(s[i])]

\* Python's str comparison: a < b, by code point, a proper prefix first.
RECURSIVE StrLess(_, _)
StrLess(a, b) ==
    IF b = <<>> THEN FALSE
    ELSE IF a = <<>> THEN TRUE
    ELSE IF a[1] # b[1] THEN a[1] < b[1]
    ELSE StrLess(Tail(a), Tail(b))

S_none == <<110, 111, 110, 101>>

S_MorningWorkout == <<77, 111, 114, 110, 105, 110, 103, 32, 119, 111, 114, 107, 111, 117, 116>>

S_TeamMeeting == <<84, 101, 97, 109, 32, 109, 101, 101, 116, 105, 110, 103>>

S_WorkOnProjectX == <<87, 111, 114, 107, 32, 111, 110, 32, 80, 114, 111, 106, 101, 99, 116, 32, 88>>

S_ReadDocumentation == <<82, 101, 97, 100, 32, 100, 111, 99, 117, 109, 101, 110, 116, 97, 116, 105, 111, 110>>

S_PrepareMeetingAgenda == <<80, 114, 101, 112, 97, 114, 101, 32, 109, 101, 101, 116, 105, 110, 103, 32, 97, 103, 101, 110, 100, 97>>

S_SendMeetingInvites == <<83, 101, 110, 100, 32, 109, 101, 101, 116, 105, 110, 103, 32, 105, 110, 118, 105, 116, 101, 115>>

S_SetupFrontendComponents == <<83, 101, 116, 117, 112, 32, 102, 114, 111, 110, 116, 101, 110, 100, 32, 99, 111, 109, 112, 111, 110, 101, 110, 116, 115>>

\* --------------------------------------------------------------- the store

\* The four tables as one value; a table is a function from the primary keys
\* of its rows to the rows.
DB == [users |-> users, categories |-> categories, tasks |-> tasks, subtasks |-> subtasks]

\* An INTEGER PRIMARY KEY of SQLite: one more than the largest key in use.
NewId(tbl) == IF DOMAIN tbl = {} THEN 1 ELSE Max(DOMAIN tbl) + 1

Insert(tbl, row) == tbl @@ (NewId(tbl) :> row)

Delete(tbl, ids) == [i \in DOMAIN tbl \ ids |-> tbl[i]]

\* Task(...): is_completed defaults to False.
NewTask(description, estimated_time, priority, time_block, order_index, user_id, category_id) ==
    [description |-> description, estimated_time |-> estimated_time,
     is_completed |-> FALSE, priority |-> priority, time_block |-> time_block,
     order_index |-> order_index, user_id |-> user_id, category_id |-> category_id]

\* Subtask(...): is_completed defaults to False.
NewSubtask(description, order_index, task_id) ==
    [description |-> description, is_completed |-> FALSE,
     order_index |-> order_index, task_id |-> task_id]

NewCategory(name, color, user_id) == [name |-> name, color |-> color, user_id |-> user_id]

\* task.subtasks: the subtasks whose task_id is the task.
SubtasksOf(db, t) == {s \in DOMAIN db.subtasks : db.subtasks[s].task_id = t}

TasksOfUser(db, u) == {t \in DOMAIN db.tasks : db.tasks[t].user_id = u}

subtask_count(db, t) == Cardinality(SubtasksOf(db, t))

completed_subtask_count(db, t) ==
    Cardinality({s \in SubtasksOf(db, t) : db.subtasks[s].is_completed})

has_subtasks(db, t) == subtask_count(db, t) > 0

\* What a handler hands back: the store it leaves, the HTTP status, the
\* flashed message (if any), whether it committed, and the row its first
\* query loaded (None when there was none).
Result(db, code, flash, committed, target) ==
    [db |-> db, code |-> code, flash |-> flash, committed |-> committed, target |-> target]

Done(db, target) == Result(db, 302, "", TRUE, target)

Rejected(db, flash, target) == Result(db, 302, flash, FALSE, target)

NotFound(db) == Result(db, 404, "", FALSE, None)

\* ---------------------------------------------------------------- handlers

RECURSIVE InsertAll(_, _)
\* db.session.add of each row of a list, in order.
InsertAll(tbl, rows) ==
    IF rows = <<>> THEN tbl ELSE InsertAll(Insert(tbl, Head(rows)), Tail(rows))

\* POST /register: a new user with the default categories, the sample tasks
\* and the sample subtasks.
register(db, username, password, confirm_password) ==
    IF password # confirm_password
    THEN Rejected(db, "Passwords do not match", None)
    ELSE IF \E x \in DOMAIN db.users : db.users[x].username = username
    THEN Rejected(db, "Username already exists", None)
    ELSE
      LET uid == NewId(db.users)
          c0 == NewId(db.categories)
          work == c0
          personal == c0 + 1
          health == c0 + 2
          learning == c0 + 3
          cats == InsertAll(db.categories,
                    <<NewCategory("Work", "blue", uid),
                      NewCategory("Personal", "green", uid),
                      NewCategory("Health", "red", uid),
                      NewCategory("Learning", "purple", uid)>>)
          sample_tasks ==
            <<NewTask(S_MorningWorkout, 45, "medium", "morning", 1, uid, health),
              NewTask(S_TeamMeeting, 60, "high", "morning", 2, uid, work),
              [NewTask(S_WorkOnProjectX, 120, "high", "afternoon", 3, uid, work)
                 EXCEPT !.is_completed = TRUE],
              NewTask(S_ReadDocumentation, 30, "low", "any", 4, uid, learning)>>
          tsk == InsertAll(db.tasks, sample_tasks)
          found(d) == {t \in DOMAIN tsk : tsk[t].description = d /\ tsk[t].user_id = uid}
          team_meeting_task == Min(found(S_TeamMeeting))
          project_task == Min(found(S_WorkOnProjectX))
          sample_subtasks ==
            <<NewSubtask(S_PrepareMeetingAgenda, 1, team_meeting_task),
              [NewSubtask(S_SendMeetingInvites, 2, team_meeting_task)
                 EXCEPT !.is_completed = TRUE],
              [NewSubtask(S_SetupFrontendComponents, 1, project_task)
                 EXCEPT !.is_completed = TRUE]>>
      IN  Done([users |-> Insert(db.users, [username |-> username]),
                categories |-> cats,
                tasks |-> tsk,
                subtasks |-> InsertAll(db.subtasks, sample_subtasks)],
               None)

\* ValidCategory that looks the category up by its id alone.
ValidCategory_any_user(db, u, form) ==
    LET category_id == Get(form, "category_id")
    IN  IF ~Falsy(category_id) /\ category_id[1] # S_none
        THEN IF /\ IsIntLiteral(category_id[1])
                /\ ParseInt(category_id[1]) \in DOMAIN db.categories
             THEN ParseInt(category_id[1])
             ELSE NULL
        ELSE NULL

\* The category a task form names: the id when the form names a category of
\* the user, else None (NULL).
ValidCategory(db, u, form) ==
    LET category_id == Get(form, "category_id")
    IN  IF ~Falsy(category_id) /\ category_id[1] # S_none
        THEN IF /\ IsIntLiteral(category_id[1])
                /\ \E c \in DOMAIN db.categories :
                      c = ParseInt(category_id[1]) /\ db.categories[c].user_id = u
             THEN ParseInt(category_id[1])
             ELSE NULL
        ELSE NULL

\* InvalidTaskForm without the test of the sign of the estimated time.
InvalidTaskForm_any_time(form) ==
    \/ Falsy(Get(form, "description"))
    \/ Falsy(Get(form, "estimated_time"))

\* "not description or not estimated_time or int(estimated_time) <= 0"
InvalidTaskForm(form) ==
    \/ Falsy(Get(form, "description"))
    \/ Falsy(Get(form, "estimated_time"))
    \/ ParseInt(form["estimated_time"]) <= 0

\* The number of rows of the scope in place of its highest key.
HighestOrder_count(keys) == Cardinality(keys)

\* db.func.max(order_index) over a scope, "or 0": 0 for no rows (and for 0).
HighestOrder(keys) == IF keys = {} THEN 0 ELSE Max(keys)

TaskKeys(db, u) == {db.tasks[t].order_index : t \in TasksOfUser(db, u)}

SubtaskKeys(db, t) == {db.subtasks[s].order_index : s \in SubtasksOf(db, t)}

\* POST /add_task
add_task(db, u, form) ==
    IF InvalidTaskForm(form)
    THEN Rejected(db, "Please enter a valid task description and estimated time.", None)
    ELSE
      LET highest_order == HighestOrder(TaskKeys(db, u))
          new_task == NewTask(form["description"], ParseInt(form["estimated_time"]),
                              form["priority"], form["time_block"],
                              highest_order + 1, u, ValidCategory(db, u, form))
      IN  Done([db EXCEPT !.tasks = Insert(db.tasks, new_task)], None)

\* Task.query.filter_by(id=task_id, user_id=current_user.id).first()
OwnTask(db, u, t) == t \in DOMAIN db.tasks /\ db.tasks[t].user_id = u

\* OwnSubtask without the join on the task's user.
OwnSubtask_any_user(db, u, s) == s \in DOMAIN db.subtasks

\* Subtask.query.join(Task).filter(Subtask.id == subtask_id,
\*                                 Task.user_id == current_user.id).first()
OwnSubtask(db, u, s) ==
    /\ s \in DOMAIN db.subtasks
    /\ OwnTask(db, u, db.subtasks[s].task_id)

\* toggle_task that flips the task's flag only.
toggle_task_no_cascade(db, u, task_id) ==
    IF ~OwnTask(db, u, task_id) THEN NotFound(db)
    ELSE Done([db EXCEPT !.tasks[task_id].is_completed = ~db.tasks[task_id].is_completed],
              Some(db.tasks[task_id]))

\* toggle_task that gives every subtask the task's new flag, both ways.
toggle_task_cascade_both(db, u, task_id) ==
    IF ~OwnTask(db, u, task_id) THEN NotFound(db)
    ELSE
      LET task == db.tasks[task_id]
          d1 == [db EXCEPT !.tasks[task_id].is_completed = ~task.is_completed]
      IN  Done([d1 EXCEPT !.subtasks =
                  [s \in DOMAIN d1.subtasks |->
                     IF s \in SubtasksOf(d1, task_id)
                     THEN [d1.subtasks[s] EXCEPT !.is_completed = ~task.is_completed]
                     ELSE d1.subtasks[s]]],
               Some(task))

\* POST /toggle_task/<task_id>.  task.subtasks is every subtask of the task,
\* whatever its flag.
toggle_task(db, u, task_id) ==
    IF ~OwnTask(db, u, task_id) THEN NotFound(db)
    ELSE
      LET task == db.tasks[task_id]
          d1 == [db EXCEPT !.tasks[task_id].is_completed = ~task.is_completed]
          d2 == IF d1.tasks[task_id].is_completed /\ has_subtasks(d1, task_id)
                THEN [d1 EXCEPT !.subtasks =
                        [s \in DOMAIN d1.subtasks |->
                           IF s \in SubtasksOf(d1, task_id)
                           THEN [d1.subtasks[s] EXCEPT !.is_completed = TRUE]
                           ELSE d1.subtasks[s]]]
                ELSE d1
      IN  Done(d2, Some(task))

\* add_subtask that leaves the task's flag alone.
add_subtask_keep_flag(db, u, task_id, form) ==
    IF ~OwnTask(db, u, task_id) THEN NotFound(db)
    ELSE
      LET task == db.tasks[task_id]
          description == Get(form, "subtask_description")
      IN  IF Falsy(description)
          THEN Rejected(db, "Please enter a valid subtask description.", Some(task))
          ELSE Done([db EXCEPT !.subtasks =
                       Insert(db.subtasks,
                              NewSubtask(description[1],
                                         HighestOrder(SubtaskKeys(db, task_id)) + 1, task_id))],
                    Some(task))

\* POST /add_subtask/<task_id>
add_subtask(db, u, task_id, form) ==
    IF ~OwnTask(db, u, task_id) THEN NotFound(db)
    ELSE
      LET task == db.tasks[task_id]
          description == Get(form, "subtask_description")
      IN  IF Falsy(description)
          THEN Rejected(db, "Please enter a valid subtask description.", Some(task))
          ELSE
            LET highest_order == HighestOrder(SubtaskKeys(db, task_id))
                new_subtask == NewSubtask(description[1], highest_order + 1, task_id)
                d1 == [db EXCEPT !.subtasks = Insert(db.subtasks, new_subtask)]
                d2 == IF task.is_completed
                      THEN [d1 EXCEPT !.tasks[task_id].is_completed = FALSE]
                      ELSE d1
            IN  Done(d2, Some(task))

\* toggle_subtask with the parent recomputed from the subtasks as they were
\* before the toggle.
toggle_subtask_stale(db, u, subtask_id) ==
    IF ~OwnSubtask(db, u, subtask_id) THEN NotFound(db)
    ELSE
      LET subtask == db.subtasks[subtask_id]
          parent_task == subtask.task_id
          d1 == [db EXCEPT !.subtasks[subtask_id].is_completed = ~subtask.is_completed]
          d2 == [d1 EXCEPT !.tasks[parent_task].is_completed =
                   (subtask_count(db, parent_task) = completed_subtask_count(db, parent_task))]
      IN  Done(d2, Some(subtask))

\* toggle_subtask that flips the subtask and leaves the parent task alone.
toggle_subtask_keep_parent(db, u, subtask_id) ==
    IF ~OwnSubtask(db, u, subtask_id) THEN NotFound(db)
    ELSE Done([db EXCEPT !.subtasks[subtask_id].is_completed =
                            ~db.subtasks[subtask_id].is_completed],
              Some(db.subtasks[subtask_id]))

\* POST /toggle_subtask/<subtask_id>.  The two counts are queries, and the
\* session flushes the pending flip before it runs them (autoflush), so they
\* count the subtasks as they are after the flip.
toggle_subtask(db, u, subtask_id) ==
    IF ~OwnSubtask(db, u, subtask_id) THEN NotFound(db)
    ELSE
      LET subtask == db.subtasks[subtask_id]
          parent_task == subtask.task_id
          d1 == [db EXCEPT !.subtasks[subtask_id].is_completed = ~subtask.is_completed]
          d2 == [d1 EXCEPT !.tasks[parent_task].is_completed =
                   (subtask_count(d1, parent_task) = completed_subtask_count(d1, parent_task))]
      IN  Done(d2, Some(subtask))

\* POST /edit_subtask/<subtask_id>
edit_subtask(db, u, subtask_id, form) ==
    IF ~OwnSubtask(db, u, subtask_id) THEN NotFound(db)
    ELSE
      LET subtask == db.subtasks[subtask_id]
          description == Get(form, "description")
      IN  IF Falsy(description)
          THEN Rejected(db, "Please enter a valid subtask description.", Some(subtask))
          ELSE Done([db EXCEPT !.subtasks[subtask_id].description = description[1]],
                    Some(subtask))

\* Subtask.query.filter(task_id == subtask.task_id,
\*                       order_index < subtask.order_index,
\*                       is_completed == subtask.is_completed)
\*              .order_by(order_index.desc()).first()
\* as the set of rows first() may return: the rows of the cohort with the
\* largest key below the subtask's (SQL leaves the order among equal keys
\* open), or None when there is none.
PrevSubtask(db, s) ==
    LET subtask == db.subtasks[s]
        below == {x \in SubtasksOf(db, subtask.task_id) :
                    /\ db.subtasks[x].order_index < subtask.order_index
                    /\ db.subtasks[x].is_completed = subtask.is_completed}
        top == {x \in below : \A y \in below :
                    db.subtasks[y].order_index <= db.subtasks[x].order_index}
    IN  IF below = {} THEN {None} ELSE {Some(x) : x \in top}

\* NextSubtask without the filter on the completion flag.
NextSubtask_any_cohort(db, s) ==
    LET subtask == db.subtasks[s]
        above == {x \in SubtasksOf(db, subtask.task_id) :
                    db.subtasks[x].order_index > subtask.order_index}
        bottom == {x \in above : \A y \in above :
                    db.subtasks[x].order_index <= db.subtasks[y].order_index}
    IN  IF above = {} THEN {None} ELSE {Some(x) : x \in bottom}

\* The same with order_index > subtask.order_index, order_by(order_index).
NextSubtask(db, s) ==
    LET subtask == db.subtasks[s]
        above == {x \in SubtasksOf(db, subtask.task_id) :
                    /\ db.subtasks[x].order_index > subtask.order_index
                    /\ db.subtasks[x].is_completed = subtask.is_completed}
        bottom == {x \in above : \A y \in above :
                    db.subtasks[x].order_index <= db.subtasks[y].order_index}
    IN  IF above = {} THEN {None} ELSE {Some(x) : x \in bottom}

\* The swap as two assignments in a row: both rows end with b's key.
SwapSubtasks_sequential(db, a, b) ==
    [db EXCEPT !.subtasks[a].order_index = db.subtasks[b].order_index]

\* a.order_index, b.order_index = b.order_index, a.order_index
SwapSubtasks(db, a, b) ==
    [db EXCEPT !.subtasks[a].order_index = db.subtasks[b].order_index,
               !.subtasks[b].order_index = db.subtasks[a].order_index]

\* POST /move_subtask_up/<subtask_id>; prev_subtask is what first() returned.
move_subtask_up(db, u, subtask_id, prev_subtask) ==
    IF ~OwnSubtask(db, u, subtask_id) THEN NotFound(db)
    ELSE IF prev_subtask # None
         THEN Done(SwapSubtasks(db, subtask_id, prev_subtask[1]), Some(db.subtasks[subtask_id]))
         ELSE Result(db, 302, "", FALSE, Some(db.subtasks[subtask_id]))

\* POST /move_subtask_down/<subtask_id>
move_subtask_down(db, u, subtask_id, next_subtask) ==
    IF ~OwnSubtask(db, u, subtask_id) THEN NotFound(db)
    ELSE IF next_subtask # None
         THEN Done(SwapSubtasks(db, subtask_id, next_subtask[1]), Some(db.subtasks[subtask_id]))
         ELSE Result(db, 302, "", FALSE, Some(db.subtasks[subtask_id]))

\* delete_subtask that does not look at the remaining subtasks.
delete_subtask_no_recompute(db, u, subtask_id) ==
    IF ~OwnSubtask(db, u, subtask_id) THEN NotFound(db)
    ELSE Done([db EXCEPT !.subtasks = Delete(db.subtasks, {subtask_id})],
              Some(db.subtasks[subtask_id]))

\* delete_subtask without the test that a subtask is left.
delete_subtask_vacuous(db, u, subtask_id) ==
    IF ~OwnSubtask(db, u, subtask_id) THEN NotFound(db)
    ELSE
      LET subtask == db.subtasks[subtask_id]
          parent_task == subtask.task_id
          d1 == [db EXCEPT !.subtasks = Delete(db.subtasks, {subtask_id})]
          d2 == IF subtask_count(d1, parent_task) = completed_subtask_count(d1, parent_task)
                THEN [d1 EXCEPT !.tasks[parent_task].is_completed = TRUE]
                ELSE d1
      IN  Done(d2, Some(subtask))

\* POST /delete_subtask/<subtask_id>
delete_subtask(db, u, subtask_id) ==
    IF ~OwnSubtask(db, u, subtask_id) THEN NotFound(db)
    ELSE
      LET subtask == db.subtasks[subtask_id]
          parent_task == subtask.task_id
          d1 == [db EXCEPT !.subtasks = Delete(db.subtasks, {subtask_id})]
          d2 == IF /\ subtask_count(d1, parent_task) > 0
                   /\ subtask_count(d1, parent_task) = completed_subtask_count(d1, parent_task)
                THEN [d1 EXCEPT !.tasks[parent_task].is_completed = TRUE]
                ELSE d1
      IN  Done(d2, Some(subtask))

\* edit_task that stores the edited task as the last of the user's tasks.
edit_task_to_end(db, u, task_id, form) ==
    IF ~OwnTask(db, u, task_id) THEN NotFound(db)
    ELSE
      LET task == db.tasks[task_id]
      IN  IF InvalidTaskForm(form)
          THEN Rejected(db, "Please enter a valid task description and estimated time.",
                        Some(task))
          ELSE Done([db EXCEPT !.tasks[task_id] =
                       [task EXCEPT !.description = form["description"],
                                    !.estimated_time = ParseInt(form["estimated_time"]),
                                    !.priority = form["priority"],
                                    !.time_block = form["time_block"],
                                    !.category_id = ValidCategory(db, u, form),
                                    !.order_index = HighestOrder(TaskKeys(db, u)) + 1]],
                    Some(task))

\* POST /edit_task/<task_id>
edit_task(db, u, task_id, form) ==
    IF ~OwnTask(db, u, task_id) THEN NotFound(db)
    ELSE
      LET task == db.tasks[task_id]
      IN  IF InvalidTaskForm(form)
          THEN Rejected(db, "Please enter a valid task description and estimated time.",
                        Some(task))
          ELSE Done([db EXCEPT !.tasks[task_id] =
                       [task EXCEPT !.description = form["description"],
                                    !.estimated_time = ParseInt(form["estimated_time"]),
                                    !.priority = form["priority"],
                                    !.time_block = form["time_block"],
                                    !.category_id = ValidCategory(db, u, form)]],
                    Some(task))

\* POST /delete_task/<task_id>: the subtasks go with the task (cascade).
delete_task(db, u, task_id) ==
    IF ~OwnTask(db, u, task_id) THEN NotFound(db)
    ELSE Done([db EXCEPT !.tasks = Delete(db.tasks, {task_id}),
                         !.subtasks = Delete(db.subtasks, SubtasksOf(db, task_id))],
              Some(db.tasks[task_id]))

\* POST /reset_all_tasks
reset_all_tasks(db, u) ==
    Done([db EXCEPT
            !.tasks = [t \in DOMAIN db.tasks |->
                         IF db.tasks[t].user_id = u
                         THEN [db.tasks[t] EXCEPT !.is_completed = FALSE]
                         ELSE db.tasks[t]],
            !.subtasks = [s \in DOMAIN db.subtasks |->
                            IF db.subtasks[s].task_id \in TasksOfUser(db, u)
                            THEN [db.subtasks[s] EXCEPT !.is_completed = FALSE]
                            ELSE db.subtasks[s]]],
         None)

\* Category.query.filter_by(id=category_id, user_id=current_user.id).first()
OwnCategory(db, u, c) == c \in DOMAIN db.categories /\ db.categories[c].user_id = u

\* Category.query.filter_by(name=name, user_id=current_user.id): the ids.
NamedCategories(db, u, name) ==
    {c \in DOMAIN db.categories :
        db.categories[c].name = name /\ db.categories[c].user_id = u}

\* POST /add_category
add_category(db, u, form) ==
    LET name == Get(form, "name")
        color == IF "color" \in DOMAIN form THEN form["color"] ELSE "blue"
    IN  IF FalsyName(name)
        THEN Rejected(db, "Please enter a valid category name.", None)
        ELSE IF NamedCategories(db, u, name[1]) # {}
        THEN Rejected(db, "A category with this name already exists.", None)
        ELSE Done([db EXCEPT !.categories =
                     Insert(db.categories, NewCategory(name[1], color, u))], None)

\* POST /edit_category/<category_id>; existing is what first() returned, one
\* of ExistingCategory.
ExistingCategory(db, u, form) ==
    LET name == Get(form, "name")
        found == IF name = None THEN {} ELSE NamedCategories(db, u, name[1])
    IN  IF found = {} THEN {None} ELSE {Some(c) : c \in found}

edit_category(db, u, category_id, form, existing) ==
    IF ~OwnCategory(db, u, category_id) THEN NotFound(db)
    ELSE
      LET category == db.categories[category_id]
          name == Get(form, "name")
      IN  IF FalsyName(name)
          THEN Rejected(db, "Please enter a valid category name.", Some(category))
          ELSE IF existing # None /\ existing[1] # category_id
          THEN Rejected(db, "A category with this name already exists.", Some(category))
          ELSE Done([db EXCEPT !.categories[category_id] =
                       [category EXCEPT !.name = name[1], !.color = form["color"]]],
                    Some(category))

\* delete_category that deletes the row and leaves the tasks as they are.
delete_category_keep_references(db, u, category_id) ==
    IF ~OwnCategory(db, u, category_id) THEN NotFound(db)
    ELSE Done([db EXCEPT !.categories = Delete(db.categories, {category_id})],
              Some(db.categories[category_id]))

\* POST /delete_category/<category_id>
delete_category(db, u, category_id) ==
    IF ~OwnCategory(db, u, category_id) THEN NotFound(db)
    ELSE Done([db EXCEPT
                 !.tasks = [t \in DOMAIN db.tasks |->
                              IF db.tasks[t].category_id = category_id
                              THEN [db.tasks[t] EXCEPT !.category_id = NULL]
                              ELSE db.tasks[t]],
                 !.categories = Delete(db.categories, {category_id})],
              Some(db.categories[category_id]))

\* PrevTask without the filter on the completion flag.
PrevTask_any_cohort(db, u, t) ==
    LET task == db.tasks[t]
        below == {x \in TasksOfUser(db, u) : db.tasks[x].order_index < task.order_index}
        top == {x \in below : \A y \in below :
                    db.tasks[y].order_index <= db.tasks[x].order_index}
    IN  IF below = {} THEN {None} ELSE {Some(x) : x \in top}

\* Task.query.filter(user_id == current_user.id,
\*                    order_index < task.order_index,
\*                    is_completed == task.is_completed)
\*           .order_by(order_index.desc()).first(), as the set of rows first()
\* may return.
PrevTask(db, u, t) ==
    LET task == db.tasks[t]
        below == {x \in TasksOfUser(db, u) :
                    /\ db.tasks[x].order_index < task.order_index
                    /\ db.tasks[x].is_completed = task.is_completed}
        top == {x \in below : \A y \in below :
                    db.tasks[y].order_index <= db.tasks[x].order_index}
    IN  IF below = {} THEN {None} ELSE {Some(x) : x \in top}

\* NextTask with the descending order of PrevTask: the highest key above.
NextTask_desc(db, u, t) ==
    LET task == db.tasks[t]
        above == {x \in TasksOfUser(db, u) :
                    /\ db.tasks[x].order_index > task.order_index
                    /\ db.tasks[x].is_completed = task.is_completed}
        top == {x \in above : \A y \in above :
                    db.tasks[y].order_index <= db.tasks[x].order_index}
    IN  IF above = {} THEN {None} ELSE {Some(x) : x \in top}

NextTask(db, u, t) ==
    LET task == db.tasks[t]
        above == {x \in TasksOfUser(db, u) :
                    /\ db.tasks[x].order_index > task.order_index
                    /\ db.tasks[x].is_completed = task.is_completed}
        bottom == {x \in above : \A y \in above :
                    db.tasks[x].order_index <= db.tasks[y].order_index}
    IN  IF above = {} THEN {None} ELSE {Some(x) : x \in bottom}

\* SwapTasks written as two assignments in a row: the second reads the key
\* the first has just written.
SwapTasks_sequential(db, a, b) ==
    [db EXCEPT !.tasks[a].order_index = db.tasks[b].order_index]

SwapTasks(db, a, b) ==
    [db EXCEPT !.tasks[a].order_index = db.tasks[b].order_index,
               !.tasks[b].order_index = db.tasks[a].order_index]

\* POST /move_task_up/<task_id>; prev_task is what first() returned.
move_task_up(db, u, task_id, prev_task) ==
    IF ~OwnTask(db, u, task_id) THEN NotFound(db)
    ELSE IF prev_task # None
         THEN Done(SwapTasks(db, task_id, prev_task[1]), Some(db.tasks[task_id]))
         ELSE Result(db, 302, "", FALSE, Some(db.tasks[task_id]))

\* POST /move_task_down/<task_id>
move_task_down(db, u, task_id, next_task) ==
    IF ~OwnTask(db, u, task_id) THEN NotFound(db)
    ELSE IF next_task # None
         THEN Done(SwapTasks(db, task_id, next_task[1]), Some(db.tasks[task_id]))
         ELSE Result(db, 302, "", FALSE, Some(db.tasks[task_id]))

\* -------------------------------------------------------------- sort_tasks

\* priority_order.get(task.priority, 99)
priority_order(priority) ==
    CASE priority = "high" -> 1
      [] priority = "medium" -> 2
      [] priority = "low" -> 3
      [] OTHER -> 99

\* time_block_order.get(task.time_block, 99)
time_block_order(time_block) ==
    CASE time_block = "morning" -> 1
      [] time_block = "afternoon" -> 2
      [] time_block = "evening" -> 3
      [] time_block = "any" -> 4
      [] OTHER -> 99

\* task_sort_key with the time block ahead of the order key.
task_sort_key_block_first(task) ==
    LET completion_key == IF task.is_completed THEN 1 ELSE 0
        order_key == IF task.order_index # NULL THEN task.order_index ELSE 999
        block_key == time_block_order(task.time_block)
        priority_key == priority_order(task.priority)
        name_key == Lower(task.description)
    IN  <<completion_key, block_key, order_key, priority_key, name_key>>

\* task_sort_key without the order key.
task_sort_key_no_order(task) ==
    LET completion_key == IF task.is_completed THEN 1 ELSE 0
        block_key == time_block_order(task.time_block)
        priority_key == priority_order(task.priority)
        name_key == Lower(task.description)
    IN  <<completion_key, completion_key, block_key, priority_key, name_key>>

task_sort_key(task) ==
    LET completion_key == IF task.is_completed THEN 1 ELSE 0
        order_key == IF task.order_index # NULL THEN task.order_index ELSE 999
        block_key == time_block_order(task.time_block)
        priority_key == priority_order(task.priority)
        name_key == Lower(task.description)
    IN  <<completion_key, order_key, block_key, priority_key, name_key>>

\* Python's tuple comparison k1 < k2 on two sort keys: the first component
\* that differs decides.
KeyLess(k1, k2) ==
    \E i \in 1..5 :
       /\ \A j \in 1..(i - 1) : k1[j] = k2[j]
       /\ IF i = 5 THEN StrLess(k1[5], k2[5]) ELSE k1[i] < k2[i]

RECURSIVE InsertSorted(_, _)
\* x put into the sorted list after every element that is not greater.
InsertSorted(sorted, x) ==
    IF sorted = <<>> THEN <<x>>
    ELSE IF KeyLess(task_sort_key(x), task_sort_key(Head(sorted)))
         THEN <<x>> \o sorted
         ELSE <<Head(sorted)>> \o InsertSorted(Tail(sorted), x)

RECURSIVE SortedFrom(_, _)
SortedFrom(sorted, rest) ==
    IF rest = <<>> THEN sorted
    ELSE SortedFrom(InsertSorted(sorted, Head(rest)), Tail(rest))

\* sorted(tasks, key=task_sort_key): ascending and stable.
sort_tasks(task_list) == SortedFrom(<<>>, task_list)

\* ------------------------------------------------------- inputs of the model

Usernames == {"alice", "bob"}

Passwords == {"p", "q"}

S_a == <<97>>

S_B == <<66>>

S_b == <<98>>

\* The forms of add_task and edit_task.  The dashboard's form always carries
\* priority and time_block, and a non-empty estimated_time is a decimal
\* literal.  Category "1" is the first category of the first user; no
\* category "9" exists.
TaskForms ==
    {[description |-> S_a, estimated_time |-> <<51, 48>>, priority |-> "high",
      time_block |-> "evening", category_id |-> <<49>>],
     [description |-> S_B, estimated_time |-> <<53>>, priority |-> "low",
      time_block |-> "any", category_id |-> <<57>>],
     [description |-> <<>>, estimated_time |-> <<51, 48>>, priority |-> "high",
      time_block |-> "evening", category_id |-> S_none],
     [description |-> S_a, priority |-> "high",
      time_block |-> "evening", category_id |-> S_none],
     [description |-> S_a, estimated_time |-> <<48>>, priority |-> "high",
      time_block |-> "evening", category_id |-> S_none]}

\* The forms of add_subtask (field subtask_description) and edit_subtask
\* (field description): a text, the empty text, and no field at all.
TextForms(field) == {(field :> S_a), (field :> <<>>), <<>>}

AddCategoryForms ==
    {[name |-> "Home"], [name |-> "Work", color |-> "red"], [name |-> "", color |-> "red"]}

\* The dashboard's edit form always carries color.
EditCategoryForms ==
    {[name |-> "Home", color |-> "red"], [name |-> "Work", color |-> "red"],
     [name |-> "", color |-> "red"]}

\* The ids a request may name: those of the rows and one that names no row.
Args(tbl) == DOMAIN tbl \cup {NewId(tbl)}

\* ----------------------------------------------------------------- actions

NoTrip == [kind |-> "", id |-> 0, dir |-> "", phase |-> 0, keys |-> <<>>]

NoCommand ==
    [op |-> "", user |-> 0, arg |-> 0, code |-> 0, flash |-> "", committed |-> FALSE,
     target |-> None]

\* The order keys of the scope of a task (its user's tasks) or of a subtask
\* (its parent's subtasks), by id.
ScopeKeys(db, kind, id) ==
    IF kind = "task"
    THEN [t \in TasksOfUser(db, db.tasks[id].user_id) |-> db.tasks[t].order_index]
    ELSE [s \in SubtasksOf(db, db.subtasks[id].task_id) |-> db.subtasks[s].order_index]

MoveKind(op) ==
    IF op \in {"move_task_up", "move_task_down"} THEN "task"
    ELSE IF op \in {"move_subtask_up", "move_subtask_down"} THEN "subtask"
    ELSE ""

MoveDir(op) == IF op \in {"move_task_up", "move_subtask_up"} THEN "up" ELSE "down"

\* trip watches for a move of an entity that swapped two keys and is followed
\* at once by the opposite move of the same entity: phase 1 after the first
\* move, phase 2 after the second, keys being the scope's order keys before
\* the first.
TripAfter(op, arg, r) ==
    IF MoveKind(op) = "" \/ r.code # 302 THEN NoTrip
    ELSE IF /\ trip.phase = 1
            /\ trip.kind = MoveKind(op)
            /\ trip.id = arg
            /\ trip.dir # MoveDir(op)
         THEN [trip EXCEPT !.phase = 2]
         ELSE IF r.committed
              THEN [kind |-> MoveKind(op), id |-> arg, dir |-> MoveDir(op), phase |-> 1,
                    keys |-> ScopeKeys(DB, MoveKind(op), arg)]
              ELSE NoTrip

\* A request of user u handled to its response r.
Handle(op, u, arg, r) ==
    /\ users' = r.db.users
    /\ categories' = r.db.categories
    /\ tasks' = r.db.tasks
    /\ subtasks' = r.db.subtasks
    /\ last' = [op |-> op, user |-> u, arg |-> arg, code |-> r.code, flash |-> r.flash,
                committed |-> r.committed, target |-> r.target]
    /\ trip' = TripAfter(op, arg, r)
    /\ UNCHANGED <<sortIn, sortOut, reqs>>

\* A request handled, within the budget of requests.
Command(op, u, arg, r) ==
    /\ ncmds < MaxCmds
    /\ ncmds' = ncmds + 1
    /\ Handle(op, u, arg, r)

Register ==
    \E username \in Usernames, password \in Passwords, confirm_password \in Passwords :
       Command("register", 0, 0, register(DB, username, password, confirm_password))

AddTask ==
    \E u \in DOMAIN users, form \in TaskForms :
       Command("add_task", u, 0, add_task(DB, u, form))

ToggleTask ==
    \E u \in DOMAIN users, t \in Args(tasks) :
       Command("toggle_task", u, t, toggle_task(DB, u, t))

AddSubtask ==
    \E u \in DOMAIN users, t \in Args(tasks), form \in TextForms("subtask_description") :
       Command("add_subtask", u, t, add_subtask(DB, u, t, form))

ToggleSubtask ==
    \E u \in DOMAIN users, s \in Args(subtasks) :
       Command("toggle_subtask", u, s, toggle_subtask(DB, u, s))

EditSubtask ==
    \E u \in DOMAIN users, s \in Args(subtasks), form \in TextForms("description") :
       Command("edit_subtask", u, s, edit_subtask(DB, u, s, form))

MoveSubtaskUp ==
    \E u \in DOMAIN users, s \in Args(subtasks) :
       \E prev_subtask \in (IF s \in DOMAIN subtasks THEN PrevSubtask(DB, s) ELSE {None}) :
          Command("move_subtask_up", u, s, move_subtask_up(DB, u, s, prev_subtask))

MoveSubtaskDown ==
    \E u \in DOMAIN users, s \in Args(subtasks) :
       \E next_subtask \in (IF s \in DOMAIN subtasks THEN NextSubtask(DB, s) ELSE {None}) :
          Command("move_subtask_down", u, s, move_subtask_down(DB, u, s, next_subtask))

DeleteSubtask ==
    \E u \in DOMAIN users, s \in Args(subtasks) :
       Command("delete_subtask", u, s, delete_subtask(DB, u, s))

EditTask ==
    \E u \in DOMAIN users, t \in Args(tasks), form \in TaskForms :
       Command("edit_task", u, t, edit_task(DB, u, t, form))

DeleteTask ==
    \E u \in DOMAIN users, t \in Args(tasks) :
       Command("delete_task", u, t, delete_task(DB, u, t))

ResetAllTasks ==
    \E u \in DOMAIN users :
       Command("reset_all_tasks", u, 0, reset_all_tasks(DB, u))

AddCategory ==
    \E u \in DOMAIN users, form \in AddCategoryForms :
       Command("add_category", u, 0, add_category(DB, u, form))

EditCategory ==
    \E u \in DOMAIN users, c \in Args(categories), form \in EditCategoryForms :
       \E existing \in ExistingCategory(DB, u, form) :
          Command("edit_category", u, c, edit_category(DB, u, c, form, existing))

DeleteCategory ==
    \E u \in DOMAIN users, c \in Args(categories) :
       Command("delete_category", u, c, delete_category(DB, u, c))

MoveTaskUp ==
    \E u \in DOMAIN users, t \in Args(tasks) :
       \E prev_task \in (IF t \in DOMAIN tasks THEN PrevTask(DB, u, t) ELSE {None}) :
          Command("move_task_up", u, t, move_task_up(DB, u, t, prev_task))

MoveTaskDown ==
    \E u \in DOMAIN users, t \in Args(tasks) :
       \E next_task \in (IF t \in DOMAIN tasks THEN NextTask(DB, u, t) ELSE {None}) :
          Command("move_task_down", u, t, move_task_down(DB, u, t, next_task))

\* The empty database of db.create_all().
Init ==
    /\ users = <<>>
    /\ categories = <<>>
    /\ tasks = <<>>
    /\ subtasks = <<>>
    /\ last = NoCommand
    /\ ncmds = 0
    /\ trip = NoTrip
    /\ sortIn = <<>>
    /\ sortOut = None
    /\ reqs = <<>>

Next ==
    \/ Register
    \/ AddTask
    \/ ToggleTask
    \/ AddSubtask
    \/ ToggleSubtask
    \/ EditSubtask
    \/ MoveSubtaskUp
    \/ MoveSubtaskDown
    \/ DeleteSubtask
    \/ EditTask
    \/ DeleteTask
    \/ ResetAllTasks
    \/ AddCategory
    \/ EditCategory
    \/ DeleteCategory
    \/ MoveTaskUp
    \/ MoveTaskDown

Spec == Init /\ [][Next]_vars

\* ------------------------------------------------- sort_tasks on its own

Completions == {FALSE, TRUE}

OrderKeys == {1, 2}

\* <<time_block, priority, description>>: one base and one variation of each
\* component, and two descriptions that differ only in case.
Variants ==
    {<<"morning", "high", S_a>>, <<"any", "high", S_a>>, <<"morning", "low", S_a>>,
     <<"morning", "high", S_B>>, <<"morning", "high", S_b>>}

SortPool ==
    {[NewTask(v[3], 30, v[2], v[1], k, 1, NULL) EXCEPT !.is_completed = c] :
        c \in Completions, k \in OrderKeys, v \in Variants}

InitSort ==
    /\ users = <<>>
    /\ categories = <<>>
    /\ tasks = <<>>
    /\ subtasks = <<>>
    /\ last = NoCommand
    /\ ncmds = 0
    /\ trip = NoTrip
    /\ sortIn \in UNION {[1..n -> SortPool] : n \in 0..MaxLen}
    /\ sortOut = None
    /\ reqs = <<>>

SortTasks ==
    /\ sortOut = None
    /\ sortOut' = Some(sort_tasks(sortIn))
    /\ UNCHANGED <<users, categories, tasks, subtasks, last, ncmds, trip, sortIn, reqs>>

NextSort == SortTasks

SpecSort == InitSort /\ [][NextSort]_vars

\* ------------------------------- sort_tasks on tasks without an order key
\*
\* order_index is a nullable column and task_sort_key tests it for None:
\* the lists here hold tasks with and without an order key, and order keys on
\* both sides of the value task_sort_key puts in place of None.

NullableOrderKeys == {NULL, 1, 1000}

NullableVariants == {<<"morning", "high", S_a>>, <<"any", "low", S_B>>}

NullableSortPool ==
    {[NewTask(v[3], 30, v[2], v[1], k, 1, NULL) EXCEPT !.is_completed = c] :
        c \in Completions, k \in NullableOrderKeys, v \in NullableVariants}

InitSortNullable ==
    /\ users = <<>>
    /\ categories = <<>>
    /\ tasks = <<>>
    /\ subtasks = <<>>
    /\ last = NoCommand
    /\ ncmds = 0
    /\ trip = NoTrip
    /\ sortIn \in UNION {[1..n -> NullableSortPool] : n \in 0..MaxLen}
    /\ sortOut = None
    /\ reqs = <<>>

SpecSortNullable == InitSortNullable /\ [][NextSort]_vars

\* --------------------------------------- two move requests in flight
\*
\* The server handles requests in threads, each with its own session, and a
\* move handler holds no lock between its queries and its commit: a request
\* runs SELECT (the task), SELECT (the neighbour), then UPDATE and COMMIT
\* with the values its session loaded. reqs holds the requests in flight:
\* what each asked for, where it is, and the rows its session holds.

\* The first registration, on the empty database.
RaceStart ==
    register([users |-> <<>>, categories |-> <<>>, tasks |-> <<>>, subtasks |-> <<>>],
             "alice", "p", "p")

RaceStore == RaceStart.db

RaceUser == CHOOSE u \in DOMAIN RaceStore.users : TRUE

RaceOps == {"move_task_up", "move_task_down"}

RaceRequests ==
    {[op |-> o, arg |-> a, pc |-> "start", task |-> None, other |-> None] :
        o \in RaceOps, a \in Args(RaceStore.tasks)}

\* move_task_up's second query with the values of the loaded task, as the
\* set of rows first() may return.
PrevTaskQuery(db, u, task) ==
    LET below == {x \in TasksOfUser(db, u) :
                    /\ db.tasks[x].order_index < task.order_index
                    /\ db.tasks[x].is_completed = task.is_completed}
        top == {x \in below : \A y \in below :
                    db.tasks[y].order_index <= db.tasks[x].order_index}
    IN  IF below = {} THEN {None} ELSE {Some(x) : x \in top}

\* move_task_down's second query with the values of the loaded task.
NextTaskQuery(db, u, task) ==
    LET above == {x \in TasksOfUser(db, u) :
                    /\ db.tasks[x].order_index > task.order_index
                    /\ db.tasks[x].is_completed = task.is_completed}
        bottom == {x \in above : \A y \in above :
                    db.tasks[x].order_index <= db.tasks[y].order_index}
    IN  IF above = {} THEN {None} ELSE {Some(x) : x \in bottom}

InitRace ==
    /\ users = <<>>
    /\ categories = <<>>
    /\ tasks = <<>>
    /\ subtasks = <<>>
    /\ last = NoCommand
    /\ ncmds = 0
    /\ trip = NoTrip
    /\ sortIn = <<>>
    /\ sortOut = None
    /\ reqs = <<>>

\* The first user registers.
RaceRegister ==
    /\ users = <<>>
    /\ Command("register", 0, 0, RaceStart)

\* Two move requests of the user arrive.
RaceArrive ==
    /\ reqs = <<>>
    /\ users # <<>>
    /\ reqs' \in [1..2 -> RaceRequests]
    /\ UNCHANGED <<users, categories, tasks, subtasks, last, ncmds, trip, sortIn, sortOut>>

\* task = Task.query.filter_by(id=task_id, user_id=current_user.id)
\*                  .first_or_404()
RaceLoadTask ==
    \E i \in DOMAIN reqs :
       /\ reqs[i].pc = "start"
       /\ reqs' = IF OwnTask(DB, RaceUser, reqs[i].arg)
                  THEN [reqs EXCEPT ![i].pc = "loaded",
                                    ![i].task = Some(tasks[reqs[i].arg])]
                  ELSE [reqs EXCEPT ![i].pc = "done"]
       /\ UNCHANGED <<users, categories, tasks, subtasks, last, ncmds, trip,
                      sortIn, sortOut>>

\* prev_task / next_task = Task.query.filter(...).first(): the query sees
\* the store as it is now and compares with the loaded task's values. A row
\* the session already holds (the task itself) keeps its loaded values.
RaceFindNeighbour ==
    \E i \in DOMAIN reqs :
       /\ reqs[i].pc = "loaded"
       /\ LET task == reqs[i].task[1]
              found == IF reqs[i].op = "move_task_up"
                       THEN PrevTaskQuery(DB, RaceUser, task)
                       ELSE NextTaskQuery(DB, RaceUser, task)
          IN  \E o \in found :
                 reqs' = [reqs EXCEPT
                            ![i].pc = "found",
                            ![i].other =
                               IF o = None THEN None
                               ELSE Some([id |-> o[1],
                                          order_index |->
                                             IF o[1] = reqs[i].arg THEN task.order_index
                                             ELSE tasks[o[1]].order_index])]
       /\ UNCHANGED <<users, categories, tasks, subtasks, last, ncmds, trip,
                      sortIn, sortOut>>

\* task.order_index, prev_task.order_index = prev_task.order_index,
\* task.order_index; db.session.commit(): one UPDATE of order_index per row
\* whose value changed, with the values the session holds.
RaceCommit ==
    \E i \in DOMAIN reqs :
       /\ reqs[i].pc = "found"
       /\ reqs' = [reqs EXCEPT ![i].pc = "done"]
       /\ tasks' = IF reqs[i].other = None \/ reqs[i].other[1].id = reqs[i].arg
                   THEN tasks
                   ELSE [tasks EXCEPT
                           ![reqs[i].arg].order_index = reqs[i].other[1].order_index,
                           ![reqs[i].other[1].id].order_index = reqs[i].task[1].order_index]
       /\ UNCHANGED <<users, categories, subtasks, last, ncmds, trip, sortIn, sortOut>>

NextRace ==
    \/ RaceRegister
    \/ RaceArrive
    \/ RaceLoadTask
    \/ RaceFindNeighbour
    \/ RaceCommit

SpecRace == InitRace /\ [][NextRace]_vars

\* ------------------------- two toggle_subtask / add_task requests in flight
\*
\* The database is one SQLite file (sqlite:///daywise.db).  A session's
\* SELECTs before its first write run outside a transaction; its first
\* UPDATE or INSERT takes the database's write lock, which it holds until
\* its commit, so from its first write to its commit a request runs without
\* another request's write in between.
\*   toggle_subtask: SELECT (the subtask); then the flush of the pending flip
\*     (autoflush ahead of the parent's queries), the two counts, the parent's
\*     flag and the commit, under the write lock.
\*   add_task: the SELECTs of the validation and of max(order_index); then,
\*     at the commit, the INSERT.

RaceOtherRequests ==
    {[op |-> "toggle_subtask", arg |-> s, form |-> <<>>, pc |-> "start",
      subtask |-> None, highest_order |-> None] : s \in Args(RaceStore.subtasks)}
    \cup
    {[op |-> "add_task", arg |-> 0, form |-> f, pc |-> "start",
      subtask |-> None, highest_order |-> None] :
        f \in {g \in TaskForms : ~InvalidTaskForm(g)}}

\* Two requests of the user arrive.
RaceArriveOther ==
    /\ reqs = <<>>
    /\ users # <<>>
    /\ reqs' \in [1..2 -> RaceOtherRequests]
    /\ UNCHANGED <<users, categories, tasks, subtasks, last, ncmds, trip, sortIn, sortOut>>

\* toggle_subtask: subtask = Subtask.query.join(Task).filter(...)
\*                                  .first_or_404()
RaceLoadSubtask ==
    \E i \in DOMAIN reqs :
       /\ reqs[i].op = "toggle_subtask"
       /\ reqs[i].pc = "start"
       /\ reqs' = IF OwnSubtask(DB, RaceUser, reqs[i].arg)
                  THEN [reqs EXCEPT ![i].pc = "loaded",
                                    ![i].subtask = Some(subtasks[reqs[i].arg])]
                  ELSE [reqs EXCEPT ![i].pc = "done"]
       /\ UNCHANGED <<users, categories, tasks, subtasks, last, ncmds, trip,
                      sortIn, sortOut>>

\* toggle_subtask: subtask.is_completed = not subtask.is_completed with the
\* value the session loaded, flushed; the counts over the store as it is
\* then; the parent's flag; db.session.commit().
RaceToggleCommit ==
    \E i \in DOMAIN reqs :
       /\ reqs[i].op = "toggle_subtask"
       /\ reqs[i].pc = "loaded"
       /\ LET subtask == reqs[i].subtask[1]
              parent_task == subtask.task_id
              d1 == [DB EXCEPT !.subtasks[reqs[i].arg].is_completed = ~subtask.is_completed]
          IN  /\ subtasks' = d1.subtasks
              /\ tasks' = [tasks EXCEPT ![parent_task].is_completed =
                             (subtask_count(d1, parent_task)
                                 = completed_subtask_count(d1, parent_task))]
       /\ reqs' = [reqs EXCEPT ![i].pc = "done"]
       /\ UNCHANGED <<users, categories, last, ncmds, trip, sortIn, sortOut>>

\* add_task: highest_order = db.session.query(db.func.max(Task.order_index))
\*                              .filter_by(user_id=current_user.id).scalar() or 0
RaceReadHighest ==
    \E i \in DOMAIN reqs :
       /\ reqs[i].op = "add_task"
       /\ reqs[i].pc = "start"
       /\ reqs' = [reqs EXCEPT ![i].pc = "read",
                               ![i].highest_order = Some(HighestOrder(TaskKeys(DB, RaceUser)))]
       /\ UNCHANGED <<users, categories, tasks, subtasks, last, ncmds, trip,
                      sortIn, sortOut>>

\* add_task: Task(..., order_index=highest_order + 1); db.session.add;
\* db.session.commit().  The row is the one add_task builds, with the order
\* key from the highest_order the request read.
RaceInsertTask ==
    \E i \in DOMAIN reqs :
       /\ reqs[i].op = "add_task"
       /\ reqs[i].pc = "read"
       /\ tasks' = [add_task(DB, RaceUser, reqs[i].form).db.tasks EXCEPT
                      ![NewId(tasks)].order_index = reqs[i].highest_order[1] + 1]
       /\ reqs' = [reqs EXCEPT ![i].pc = "done"]
       /\ UNCHANGED <<users, categories, subtasks, last, ncmds, trip, sortIn, sortOut>>

NextRaceOther ==
    \/ RaceRegister
    \/ RaceArriveOther
    \/ RaceLoadSubtask
    \/ RaceToggleCommit
    \/ RaceReadHighest
    \/ RaceInsertTask

SpecRaceOther == InitRace /\ [][NextRaceOther]_vars

\* ------------------------------------------------------------------ claims

\* The store after the step, in action formulas.
DBnext ==
    [users |-> users', categories |-> categories', tasks |-> tasks', subtasks |-> subtasks']

AllSubtasksComplete(db, t) == \A s \in SubtasksOf(db, t) : db.subtasks[s].is_completed

\* The request just handled was op and was answered with a redirect (the row
\* it names was found).
Answered(op) == last.op = op /\ last.code = 302

\* C1: after toggle_subtask of a subtask, the parent task is complete exactly
\* when every subtask of the parent is complete; in particular the parent is
\* incomplete whenever the toggled subtask is now incomplete.
C1_ToggleSubtaskRecomputesParent ==
    Answered("toggle_subtask") =>
       LET parent == subtasks[last.arg].task_id
       IN  /\ tasks[parent].is_completed = AllSubtasksComplete(DB, parent)
           /\ ~subtasks[last.arg].is_completed => ~tasks[parent].is_completed

\* C1 witness: toggle_subtask completed the last incomplete subtask of a task
\* with several subtasks, and the task is complete.
C1_Witness ==
    /\ Answered("toggle_subtask")
    /\ ~last.target[1].is_completed
    /\ LET parent == subtasks[last.arg].task_id
       IN  /\ Cardinality(SubtasksOf(DB, parent)) >= 2
           /\ AllSubtasksComplete(DB, parent)
           /\ tasks[parent].is_completed

\* C2: toggle_task of an incomplete task with subtasks makes the task and
\* every one of its subtasks complete; of an incomplete task without
\* subtasks, it sets the task's flag and changes nothing else in the store.
C2_CompleteTaskCascades ==
    [][(last'.op = "toggle_task" /\ last'.code = 302 /\ ~tasks[last'.arg].is_completed) =>
         LET t == last'.arg
         IN  IF SubtasksOf(DB, t) # {}
             THEN /\ tasks'[t].is_completed
                  /\ SubtasksOf(DBnext, t) = SubtasksOf(DB, t)
                  /\ \A s \in SubtasksOf(DB, t) : subtasks'[s].is_completed
             ELSE /\ tasks' = [tasks EXCEPT ![t].is_completed = TRUE]
                  /\ UNCHANGED <<users, categories, subtasks>>]_vars

\* C2 witness: toggle_task completed a task that had an incomplete subtask.
C2_Witness ==
    /\ Answered("toggle_task")
    /\ ~last.target[1].is_completed
    /\ tasks[last.arg].is_completed
    /\ Cardinality(SubtasksOf(DB, last.arg)) >= 2
    /\ AllSubtasksComplete(DB, last.arg)

\* C3: toggle_task of a complete task leaves the completion flag of every
\* subtask of the task as it was.
C3_UncompleteTaskKeepsSubtasks ==
    [][(last'.op = "toggle_task" /\ last'.code = 302 /\ tasks[last'.arg].is_completed) =>
         LET t == last'.arg
         IN  /\ ~tasks'[t].is_completed
             /\ SubtasksOf(DBnext, t) = SubtasksOf(DB, t)
             /\ \A s \in SubtasksOf(DB, t) :
                   subtasks'[s].is_completed = subtasks[s].is_completed]_vars

\* C3 witness: toggle_task un-completed a task, which is now incomplete with
\* all of its subtasks complete.
C3_Witness ==
    /\ Answered("toggle_task")
    /\ last.target[1].is_completed
    /\ ~tasks[last.arg].is_completed
    /\ SubtasksOf(DB, last.arg) # {}
    /\ AllSubtasksComplete(DB, last.arg)

\* C4: add_subtask with a non-empty description leaves the task incomplete,
\* whatever its flag was, and adds one subtask, incomplete, to the task.
C4_AddSubtaskUncompletesTask ==
    [][(last'.op = "add_subtask" /\ last'.committed) =>
         LET t == last'.arg
             new == NewId(subtasks)
         IN  /\ ~tasks'[t].is_completed
             /\ DOMAIN subtasks' = DOMAIN subtasks \cup {new}
             /\ subtasks'[new].task_id = t
             /\ ~subtasks'[new].is_completed]_vars

\* C4 witness: add_subtask added a subtask to a task that was complete.
C4_Witness ==
    /\ last.op = "add_subtask"
    /\ last.committed
    /\ last.target[1].is_completed
    /\ ~tasks[last.arg].is_completed

\* C5: after delete_subtask that leaves the parent with at least one
\* subtask, the parent is complete exactly when all remaining subtasks are.
C5_DeleteSubtaskRecomputesParent ==
    Answered("delete_subtask") =>
       LET parent == last.target[1].task_id
       IN  SubtasksOf(DB, parent) # {} =>
              tasks[parent].is_completed = AllSubtasksComplete(DB, parent)

\* C5 witness: delete_subtask deleted an incomplete subtask, the remaining
\* subtasks are complete and the parent is complete.
C5_Witness ==
    /\ Answered("delete_subtask")
    /\ ~last.target[1].is_completed
    /\ LET parent == last.target[1].task_id
       IN  /\ SubtasksOf(DB, parent) # {}
           /\ AllSubtasksComplete(DB, parent)
           /\ tasks[parent].is_completed

MoveOps == {"move_task_up", "move_task_down", "move_subtask_up", "move_subtask_down"}

\* C7: a move changes no order key of its scope or exchanges the keys of
\* exactly two entities of the scope; each key value occurs as often after
\* the move as before.
C7_MovePreservesKeys ==
    [][(last'.op \in MoveOps /\ last'.code = 302) =>
         LET before == ScopeKeys(DB, MoveKind(last'.op), last'.arg)
             after == ScopeKeys(DBnext, MoveKind(last'.op), last'.arg)
         IN  /\ DOMAIN after = DOMAIN before
             /\ \A k \in Range(before) \cup Range(after) :
                   Cardinality({x \in DOMAIN before : before[x] = k})
                     = Cardinality({x \in DOMAIN after : after[x] = k})
             /\ \/ after = before
                \/ \E a, b \in DOMAIN before :
                      /\ a # b
                      /\ before[a] # before[b]
                      /\ after = [before EXCEPT ![a] = before[b], ![b] = before[a]]]_vars

\* C7 witness: move_subtask_down exchanged the keys of two subtasks.
C7_Witness ==
    /\ last.op = "move_subtask_down"
    /\ last.committed
    /\ subtasks[last.arg].order_index # last.target[1].order_index

\* The entities of the scope of id with id's completion flag and a lower
\* (dir = "up") or higher (dir = "down") order key.
CohortBeyond(db, kind, id, dir) ==
    LET rows == IF kind = "task" THEN db.tasks ELSE db.subtasks
        scope == DOMAIN ScopeKeys(db, kind, id)
    IN  {x \in scope :
           /\ rows[x].is_completed = rows[id].is_completed
           /\ IF dir = "up" THEN rows[x].order_index < rows[id].order_index
                            ELSE rows[x].order_index > rows[id].order_index}

\* C8: a move up of the entity with the lowest key of its cohort, and a move
\* down of the one with the highest, change no order key (nor anything else
\* of a task or subtask), whatever the keys of the other cohort.
C8_MoveAtCohortEdgeIsNoOp ==
    [][(/\ last'.op \in MoveOps
        /\ last'.code = 302
        /\ CohortBeyond(DB, MoveKind(last'.op), last'.arg, MoveDir(last'.op)) = {}) =>
         UNCHANGED <<tasks, subtasks>>]_vars

\* C8 witness: move_task_up of the first task of its cohort was handled while
\* a task of the other cohort has a lower key.
C8_Witness ==
    /\ Answered("move_task_up")
    /\ CohortBeyond(DB, "task", last.arg, "up") = {}
    /\ \E x \in TasksOfUser(DB, last.user) :
          /\ tasks[x].is_completed # tasks[last.arg].is_completed
          /\ tasks[x].order_index < tasks[last.arg].order_index

\* C9: a created task gets the largest order key of its user's tasks plus
\* one (1 when there are none) and a created subtask the largest order key
\* of its task's subtasks plus one (1 when there are none); the new key is
\* above every key of the scope.
C9_AppendNewKey ==
    [][/\ (last'.op = "add_task" /\ last'.committed) =>
            LET new == NewId(tasks)
                keys == {tasks[t].order_index : t \in TasksOfUser(DB, last'.user)}
            IN  /\ new \in DOMAIN tasks'
                /\ tasks'[new].user_id = last'.user
                /\ tasks'[new].order_index = IF keys = {} THEN 1 ELSE Max(keys) + 1
                /\ \A k \in keys : k < tasks'[new].order_index
       /\ (last'.op = "add_subtask" /\ last'.committed) =>
            LET new == NewId(subtasks)
                keys == {subtasks[s].order_index : s \in SubtasksOf(DB, last'.arg)}
            IN  /\ new \in DOMAIN subtasks'
                /\ subtasks'[new].task_id = last'.arg
                /\ subtasks'[new].order_index = IF keys = {} THEN 1 ELSE Max(keys) + 1
                /\ \A k \in keys : k < subtasks'[new].order_index]_vars

\* C9 witness: add_task created a task right after another creation, with a
\* key above that of the task created before it.
C9_Witness ==
    /\ last.op = "add_task"
    /\ last.committed
    /\ LET new == Max(DOMAIN tasks)
       IN  /\ new - 1 \in DOMAIN tasks
           /\ tasks[new - 1].description \in {S_a, S_B}
           /\ tasks[new].order_index > tasks[new - 1].order_index
           /\ Cardinality(TasksOfUser(DB, last.user)) > Cardinality(DOMAIN tasks) - 2

\* The order of the claim: a before b by completion flag (incomplete first),
\* then order key, then time-block rank, then priority rank, then lower-cased
\* description.
BlockRank(task) ==
    CASE task.time_block = "morning" -> 1
      [] task.time_block = "afternoon" -> 2
      [] task.time_block = "evening" -> 3
      [] task.time_block = "any" -> 4

PriorityRank(task) ==
    CASE task.priority = "high" -> 1
      [] task.priority = "medium" -> 2
      [] task.priority = "low" -> 3

Before(a, b) ==
    IF a.is_completed # b.is_completed THEN b.is_completed
    ELSE IF a.order_index # b.order_index THEN a.order_index < b.order_index
    ELSE IF BlockRank(a) # BlockRank(b) THEN BlockRank(a) < BlockRank(b)
    ELSE IF PriorityRank(a) # PriorityRank(b) THEN PriorityRank(a) < PriorityRank(b)
    ELSE StrLess(Lower(a.description), Lower(b.description))

\* C10: sort_tasks returns its input rearranged, ascending in the order of
\* the claim, tasks with equal keys in their input order; so incomplete tasks
\* come before complete ones and, within a cohort, lower order keys first.
C10_SortTasks ==
    sortOut # None =>
       LET out == sortOut[1]
           n == Len(sortIn)
       IN  /\ Len(out) = n
           /\ \E p \in [1..n -> 1..n] :
                 /\ \A i, j \in 1..n : i # j => p[i] # p[j]
                 /\ \A i \in 1..n : out[i] = sortIn[p[i]]
                 /\ \A i, j \in 1..n :
                       i < j => /\ ~Before(out[j], out[i])
                                /\ ~Before(out[i], out[j]) => p[i] < p[j]
           /\ \A i, j \in 1..n :
                 i < j => /\ ~(out[i].is_completed /\ ~out[j].is_completed)
                          /\ out[i].is_completed = out[j].is_completed
                                => out[i].order_index <= out[j].order_index

\* C10 witness: a sorted list of three tasks in which the order key decided
\* against time block, and two tasks with equal keys kept their input order.
C10_Witness ==
    /\ sortOut # None
    /\ Len(sortIn) = 3
    /\ sortOut[1] # sortIn
    /\ LET out == sortOut[1]
       IN  /\ out[1].is_completed = out[2].is_completed
           /\ out[1].order_index < out[2].order_index
           /\ BlockRank(out[1]) > BlockRank(out[2])
           /\ out[2] # out[3]
           /\ ~Before(out[2], out[3])
           /\ ~Before(out[3], out[2])

\* The owner of a subtask: the user of its parent task.
SubtaskOwner(db, s) == db.tasks[db.subtasks[s].task_id].user_id

TaskOps == {"toggle_task", "edit_task", "delete_task", "add_subtask",
            "move_task_up", "move_task_down"}

SubtaskOps == {"toggle_subtask", "edit_subtask", "delete_subtask",
               "move_subtask_up", "move_subtask_down"}

CategoryOps == {"edit_category", "delete_category"}

\* The request of the step names a task, subtask or category that does not
\* exist or is not its user's.
NamesForeignRow ==
    LET u == last'.user
        id == last'.arg
    IN  \/ last'.op \in TaskOps /\ (id \notin DOMAIN tasks \/ tasks[id].user_id # u)
        \/ last'.op \in SubtaskOps /\ (id \notin DOMAIN subtasks \/ SubtaskOwner(DB, id) # u)
        \/ last'.op \in CategoryOps
             /\ (id \notin DOMAIN categories \/ categories[id].user_id # u)

\* C11: a request of user u leaves every task, subtask and category of the
\* other users as it was and creates rows for u only; a request that names a
\* row that does not exist or is not u's is answered 404 and changes nothing.
C11_NoCrossUserEffect ==
    [][last'.user \in DOMAIN users =>
         LET u == last'.user
         IN  /\ users' = users
             /\ \A t \in DOMAIN tasks :
                   tasks[t].user_id # u => t \in DOMAIN tasks' /\ tasks'[t] = tasks[t]
             /\ \A s \in DOMAIN subtasks :
                   SubtaskOwner(DB, s) # u
                      => s \in DOMAIN subtasks' /\ subtasks'[s] = subtasks[s]
             /\ \A c \in DOMAIN categories :
                   categories[c].user_id # u
                      => c \in DOMAIN categories' /\ categories'[c] = categories[c]
             /\ \A t \in DOMAIN tasks' \ DOMAIN tasks : tasks'[t].user_id = u
             /\ \A c \in DOMAIN categories' \ DOMAIN categories : categories'[c].user_id = u
             /\ \A s \in DOMAIN subtasks' \ DOMAIN subtasks : SubtaskOwner(DBnext, s) = u
             /\ NamesForeignRow =>
                   /\ last'.code = 404
                   /\ UNCHANGED <<users, categories, tasks, subtasks>>]_vars

\* C11 witness: toggle_subtask of a user on a subtask of another user's task
\* was answered 404.
C11_Witness ==
    /\ last.op = "toggle_subtask"
    /\ last.code = 404
    /\ last.arg \in DOMAIN subtasks
    /\ SubtaskOwner(DB, last.arg) # last.user

\* C12: delete_category removes the category, sets the category of every task
\* that referred to it to NULL, deletes no task and no subtask and changes no
\* other field of any row.
C12_DeleteCategoryClearsReferences ==
    [][(last'.op = "delete_category" /\ last'.committed) =>
         LET c == last'.arg
         IN  /\ c \in DOMAIN categories
             /\ c \notin DOMAIN categories'
             /\ \A d \in DOMAIN categories \ {c} :
                   d \in DOMAIN categories' /\ categories'[d] = categories[d]
             /\ DOMAIN tasks' = DOMAIN tasks
             /\ \A t \in DOMAIN tasks :
                   tasks'[t] = IF tasks[t].category_id = c
                               THEN [tasks[t] EXCEPT !.category_id = NULL]
                               ELSE tasks[t]
             /\ subtasks' = subtasks
             /\ users' = users]_vars

\* C12 witness: a category that the task with subtasks referred to was
\* deleted; the task is still there with its subtasks and no category.
C12_Witness ==
    /\ last.op = "delete_category"
    /\ last.committed
    /\ last.target[1].name = "Work"
    /\ \E t \in TasksOfUser(DB, last.user) :
          /\ tasks[t].description = S_TeamMeeting
          /\ tasks[t].category_id = NULL
          /\ subtask_count(DB, t) = 2
    /\ \A t \in DOMAIN tasks : tasks[t].category_id # last.arg

\* The task forms the description of the rejection names: no or an empty
\* description, no or an empty estimated time, an estimated time of "0" or
\* "-5".
RejectedTaskForms ==
    {f \in TaskForms :
        \/ "description" \notin DOMAIN f
        \/ f.description = <<>>
        \/ "estimated_time" \notin DOMAIN f
        \/ f.estimated_time = <<48>>}
    \cup {[description |-> S_a, estimated_time |-> <<45, 53>>, priority |-> "high",
           time_block |-> "evening", category_id |-> <<49>>],
          [description |-> S_a, estimated_time |-> <<>>, priority |-> "high",
           time_block |-> "evening", category_id |-> <<49>>]}

RejectedTextForms(field) == {(field :> <<>>), <<>>}

RejectionMessages ==
    {"Please enter a valid task description and estimated time.",
     "Please enter a valid subtask description."}

\* C13: add_task and edit_task with no description, no estimated time or an
\* estimated time <= 0, and add_subtask and edit_subtask with no description,
\* leave the store as it is: in every state each of them returns the store it
\* was given without a commit, and every step that answered with the
\* rejection message changed no table.
C13_RejectedLeavesStore ==
    /\ [](\A u \in DOMAIN users :
            /\ \A f \in RejectedTaskForms :
                  /\ add_task(DB, u, f).db = DB
                  /\ ~add_task(DB, u, f).committed
                  /\ add_task(DB, u, f).flash \in RejectionMessages
                  /\ \A t \in TasksOfUser(DB, u) :
                        /\ edit_task(DB, u, t, f).db = DB
                        /\ ~edit_task(DB, u, t, f).committed
                        /\ edit_task(DB, u, t, f).flash \in RejectionMessages
            /\ \A t \in TasksOfUser(DB, u) :
                  \A f \in RejectedTextForms("subtask_description") :
                     /\ add_subtask(DB, u, t, f).db = DB
                     /\ ~add_subtask(DB, u, t, f).committed
                     /\ add_subtask(DB, u, t, f).flash \in RejectionMessages
            /\ \A s \in {x \in DOMAIN subtasks : OwnSubtask(DB, u, x)} :
                  \A f \in RejectedTextForms("description") :
                     /\ edit_subtask(DB, u, s, f).db = DB
                     /\ ~edit_subtask(DB, u, s, f).committed
                     /\ edit_subtask(DB, u, s, f).flash \in RejectionMessages)
    /\ [][(/\ last'.op \in {"add_task", "edit_task", "add_subtask", "edit_subtask"}
           /\ last'.flash \in RejectionMessages)
             => /\ ~last'.committed
                /\ UNCHANGED <<users, categories, tasks, subtasks>>]_vars

\* C13 witness: edit_task on a task with subtasks was rejected and the row it
\* loaded is the row the store holds.
C13_Witness ==
    /\ last.op = "edit_task"
    /\ last.flash = "Please enter a valid task description and estimated time."
    /\ ~last.committed
    /\ last.arg \in DOMAIN tasks
    /\ tasks[last.arg] = last.target[1]
    /\ has_subtasks(DB, last.arg)

\* The stores a move request leads to when it runs alone, from its first
\* query to its commit.
MoveAlone(db, r) ==
    IF r.op = "move_task_up"
    THEN {move_task_up(db, RaceUser, r.arg, p).db :
             p \in (IF r.arg \in DOMAIN db.tasks
                    THEN PrevTask(db, RaceUser, r.arg) ELSE {None})}
    ELSE {move_task_down(db, RaceUser, r.arg, n).db :
             n \in (IF r.arg \in DOMAIN db.tasks
                    THEN NextTask(db, RaceUser, r.arg) ELSE {None})}

\* The stores two move requests lead to when one runs after the other.
OneAfterTheOther(db, r1, r2) == UNION {MoveAlone(d, r2) : d \in MoveAlone(db, r1)}

\* The number of tasks of the user that carry order key k.
KeyCount(db, k) ==
    Cardinality({t \in TasksOfUser(db, RaceUser) : db.tasks[t].order_index = k})

AllDone == reqs # <<>> /\ \A i \in DOMAIN reqs : reqs[i].pc = "done"

\* C14: when two move requests on the tasks of one user have both finished,
\* each order key is carried by as many tasks as before and the store is one
\* that running the two requests one after the other, in some order, leads
\* to.
C14_ConcurrentMovesSerializable ==
    AllDone =>
       /\ \A k \in {RaceStore.tasks[t].order_index : t \in DOMAIN RaceStore.tasks}
                \cup {tasks[t].order_index : t \in DOMAIN tasks} :
             KeyCount(DB, k) = KeyCount(RaceStore, k)
       /\ DB \in OneAfterTheOther(RaceStore, reqs[1], reqs[2])
                   \cup OneAfterTheOther(RaceStore, reqs[2], reqs[1])

\* C14 witness: two move_task_up requests on different tasks have finished
\* and two tasks of the user carry the same order key.
C14_Witness ==
    /\ AllDone
    /\ reqs[1].op = "move_task_up" /\ reqs[2].op = "move_task_up"
    /\ reqs[1].arg # reqs[2].arg
    /\ \E a, b \in TasksOfUser(DB, RaceUser) :
          a # b /\ tasks[a].order_index = tasks[b].order_index

\* The completion flags of the rows of a table.
Flags(rows) == [x \in DOMAIN rows |-> rows[x].is_completed]

\* Between the tables old and new the row id exchanged its order key with
\* exactly one other row, which is of the same scope (the field scope) and
\* carries the same completion flag, and whose key was the nearest below
\* (dir "up") or above (dir "down") among the rows of that scope and flag.
SwappedWithNearestOfCohort(old, new, id, scope, dir) ==
    LET partners == {x \in DOMAIN old \ {id} : new[x] # old[x]}
        cohort == {y \in DOMAIN old \ {id} :
                     /\ old[y][scope] = old[id][scope]
                     /\ old[y].is_completed = old[id].is_completed}
    IN  \E p \in partners :
           /\ partners = {p}
           /\ p \in cohort
           /\ IF dir = "up"
              THEN /\ old[p].order_index < old[id].order_index
                   /\ \A y \in cohort :
                         ~(/\ old[p].order_index < old[y].order_index
                           /\ old[y].order_index < old[id].order_index)
              ELSE /\ old[p].order_index > old[id].order_index
                   /\ \A y \in cohort :
                         ~(/\ old[id].order_index < old[y].order_index
                           /\ old[y].order_index < old[p].order_index)
           /\ new[id] = [old[id] EXCEPT !.order_index = old[p].order_index]
           /\ new[p] = [old[p] EXCEPT !.order_index = old[id].order_index]

\* C15: a move changes no completion flag, and a move that commits exchanged
\* the key of the moved task or subtask with exactly one row of the same
\* scope and the same completion flag: the one with the nearest lower key
\* (up) or the nearest higher key (down) of that cohort.
C15_MoveStaysInCohort ==
    [][last'.op \in MoveOps =>
         /\ DOMAIN tasks' = DOMAIN tasks
         /\ DOMAIN subtasks' = DOMAIN subtasks
         /\ Flags(tasks') = Flags(tasks)
         /\ Flags(subtasks') = Flags(subtasks)
         /\ (last'.committed /\ MoveKind(last'.op) = "task") =>
               /\ SwappedWithNearestOfCohort(tasks, tasks', last'.arg, "user_id",
                                             MoveDir(last'.op))
               /\ subtasks' = subtasks
         /\ (last'.committed /\ MoveKind(last'.op) = "subtask") =>
               /\ SwappedWithNearestOfCohort(subtasks, subtasks', last'.arg, "task_id",
                                             MoveDir(last'.op))
               /\ tasks' = tasks]_vars

\* C15 witness: move_task_up exchanged the keys of two tasks and a task with
\* the other completion flag carries a key between the two.
C15_Witness ==
    /\ last.op = "move_task_up"
    /\ last.committed
    /\ \E p, z \in TasksOfUser(DB, last.user) :
          /\ tasks[p].order_index = last.target[1].order_index
          /\ tasks[p].is_completed = tasks[last.arg].is_completed
          /\ tasks[z].is_completed # tasks[last.arg].is_completed
          /\ tasks[last.arg].order_index < tasks[z].order_index
          /\ tasks[z].order_index < tasks[p].order_index

\* C16: in every state a task that is complete and has subtasks has only
\* complete subtasks.  (Not conversely: C16_Witness is a state with an
\* incomplete task whose subtasks are all complete.)
C16_CompleteTaskHasCompleteSubtasks ==
    \A t \in DOMAIN tasks :
       (tasks[t].is_completed /\ has_subtasks(DB, t)) => AllSubtasksComplete(DB, t)

\* C16 witness: a complete task with two subtasks, both complete, next to an
\* incomplete task of the same user that has subtasks, all complete.
C16_Witness ==
    \E t, c \in DOMAIN tasks :
       /\ tasks[t].user_id = tasks[c].user_id
       /\ tasks[t].is_completed
       /\ subtask_count(DB, t) = 2
       /\ AllSubtasksComplete(DB, t)
       /\ ~tasks[c].is_completed
       /\ has_subtasks(DB, c)
       /\ AllSubtasksComplete(DB, c)

\* C17: in every state the order keys are positive, no two tasks of one user
\* carry the same order key and no two subtasks of one task carry the same
\* order key.
C17_OrderKeysPositiveAndDistinct ==
    /\ \A t \in DOMAIN tasks : tasks[t].order_index >= 1
    /\ \A s \in DOMAIN subtasks : subtasks[s].order_index >= 1
    /\ \A a, b \in DOMAIN tasks :
          (a # b /\ tasks[a].user_id = tasks[b].user_id)
             => tasks[a].order_index # tasks[b].order_index
    /\ \A a, b \in DOMAIN subtasks :
          (a # b /\ subtasks[a].task_id = subtasks[b].task_id)
             => subtasks[a].order_index # subtasks[b].order_index

\* C17 witness: add_task created a task after a task of the user had been
\* deleted: the user has as many tasks as keys 1..n, and no task carries
\* key 1.
C17_Witness ==
    /\ last.op = "add_task"
    /\ last.committed
    /\ Cardinality(TasksOfUser(DB, last.user)) = 4
    /\ \A t \in TasksOfUser(DB, last.user) : tasks[t].order_index # 1

\* C18: a request other than a move leaves the order key of every task and
\* of every subtask that exists before and after it as it was.
C18_OnlyMovesChangeKeys ==
    [][last'.op \notin MoveOps =>
         /\ \A t \in DOMAIN tasks \cap DOMAIN tasks' :
               tasks'[t].order_index = tasks[t].order_index
         /\ \A s \in DOMAIN subtasks \cap DOMAIN subtasks' :
               subtasks'[s].order_index = subtasks[s].order_index]_vars

\* C18 witness: edit_task changed the row of a task that is not the first of
\* its user, and the task carries the order key it carried before.
C18_Witness ==
    /\ last.op = "edit_task"
    /\ last.committed
    /\ tasks[last.arg] # last.target[1]
    /\ tasks[last.arg].order_index = last.target[1].order_index
    /\ tasks[last.arg].order_index > 1

RECURSIVE Ascending(_)
\* The elements of a set of ids in ascending order.
Ascending(S) == IF S = {} THEN <<>> ELSE <<Min(S)>> \o Ascending(S \ {Min(S)})

\* The dashboard without a category filter: the ids of the user's tasks in
\* the order of sort_tasks(Task.query.filter_by(user_id=...).all()).  The
\* query returns the rows by id; as the tasks of a user differ in
\* (completion, order key), the order the query returns them in does not
\* show in the result.
Display(db, u) ==
    LET ids == Ascending(TasksOfUser(db, u))
        rows == [i \in DOMAIN ids |-> [id |-> ids[i]] @@ db.tasks[ids[i]]]
        sorted == sort_tasks(rows)
    IN  [i \in DOMAIN sorted |-> sorted[i].id]

Position(seq, x) == CHOOSE i \in DOMAIN seq : seq[i] = x

Exchanged(seq, i, j) == [seq EXCEPT ![i] = seq[j], ![j] = seq[i]]

\* C19: in the display of all tasks of the user, move_task_up leaves the
\* order as it is when no task with the moved task's completion flag is
\* displayed before it, and else commits and exchanges the task with the one
\* displayed immediately before it, all other tasks staying where they were;
\* move_task_down likewise with the task displayed immediately after it.
C19_MoveIsOneStepInDisplay ==
    [][(last'.op \in {"move_task_up", "move_task_down"} /\ last'.code = 302) =>
         LET u == last'.user
             t == last'.arg
             before == Display(DB, u)
             after == Display(DBnext, u)
             i == Position(before, t)
             cohort == {j \in DOMAIN before :
                          tasks[before[j]].is_completed = tasks[t].is_completed}
             j == IF last'.op = "move_task_up" THEN i - 1 ELSE i + 1
             atEdge == IF last'.op = "move_task_up"
                       THEN \A k \in cohort : k >= i
                       ELSE \A k \in cohort : k <= i
         IN  IF atEdge
             THEN ~last'.committed /\ after = before
             ELSE /\ last'.committed
                  /\ j \in cohort
                  /\ after = Exchanged(before, i, j)
                  /\ after # before]_vars

\* C19 witness: move_task_up moved a task one position up in the display,
\* ahead of a task of an earlier time block.
C19_Witness ==
    /\ last.op = "move_task_up"
    /\ last.committed
    /\ LET shown == Display(DB, last.user)
           i == Position(shown, last.arg)
       IN  /\ i + 1 \in DOMAIN shown
           /\ tasks[shown[i + 1]].order_index = last.target[1].order_index
           /\ time_block_order(tasks[shown[i + 1]].time_block)
                 < time_block_order(tasks[last.arg].time_block)

\* The task form names, by a number, a category that does not exist or is
\* another user's.
NamesForeignCategory(db, u, form) ==
    /\ "category_id" \in DOMAIN form
    /\ IsIntLiteral(form.category_id)
    /\ LET c == ParseInt(form.category_id)
       IN  c \notin DOMAIN db.categories \/ db.categories[c].user_id # u

\* C20: in every state the category of a task is NULL or a category that
\* exists and is owned by the task's user; add_task and edit_task with a
\* valid form that names a category that does not exist or is another
\* user's commit and store NULL.
C20_CategoryReferencesAreOwn ==
    /\ \A t \in DOMAIN tasks :
          \/ tasks[t].category_id = NULL
          \/ /\ tasks[t].category_id \in DOMAIN categories
             /\ categories[tasks[t].category_id].user_id = tasks[t].user_id
    /\ \A u \in DOMAIN users :
          \A f \in TaskForms \ RejectedTaskForms :
             NamesForeignCategory(DB, u, f) =>
                /\ add_task(DB, u, f).committed
                /\ add_task(DB, u, f).db.tasks[NewId(tasks)].category_id = NULL
                /\ \A t \in TasksOfUser(DB, u) :
                      /\ edit_task(DB, u, t, f).committed
                      /\ edit_task(DB, u, t, f).db.tasks[t].category_id = NULL

\* C20 witness: add_task of a user with the form that names category 1, a
\* category of another user, created a task without a category.
C20_Witness ==
    /\ last.op = "add_task"
    /\ last.committed
    /\ ParseInt(<<49>>) \in DOMAIN categories
    /\ categories[ParseInt(<<49>>)].user_id # last.user
    /\ \E t \in TasksOfUser(DB, last.user) :
          /\ tasks[t].description = S_a
          /\ tasks[t].category_id = NULL

\* C21: delete_subtask of the only subtask of a task removes that subtask
\* and leaves the task, its completion flag included, as it was.
C21_DeleteLastSubtaskKeepsFlag ==
    [][(/\ last'.op = "delete_subtask"
        /\ last'.committed
        /\ SubtasksOf(DB, subtasks[last'.arg].task_id) = {last'.arg})
          => LET parent == subtasks[last'.arg].task_id
             IN  /\ tasks'[parent].is_completed = tasks[parent].is_completed
                 /\ tasks' = tasks
                 /\ SubtasksOf(DBnext, parent) = {}
                 /\ last'.arg \notin DOMAIN subtasks']_vars

\* C21 witness: delete_subtask deleted a complete subtask, its task has no
\* subtask left and is incomplete.
C21_Witness ==
    /\ last.op = "delete_subtask"
    /\ last.committed
    /\ last.target[1].is_completed
    /\ SubtasksOf(DB, last.target[1].task_id) = {}
    /\ ~tasks[last.target[1].task_id].is_completed

\* C22: in the list sort_tasks returns, a task without an order key stands
\* after every task with the same completion flag that has one.
C22_NullKeySortsLast ==
    sortOut # None =>
       LET out == sortOut[1]
       IN  \A i, j \in DOMAIN out :
              (/\ out[i].order_index = NULL
               /\ out[j].order_index # NULL
               /\ out[i].is_completed = out[j].is_completed)
                 => j < i

\* C22 witness: sort_tasks returned a task without an order key ahead of a
\* task with order key 1000, both incomplete.
C22_Witness ==
    /\ sortOut # None
    /\ Len(sortOut[1]) = 2
    /\ sortOut[1][1].order_index = NULL
    /\ sortOut[1][2].order_index > 999
    /\ ~sortOut[1][1].is_completed
    /\ ~sortOut[1][2].is_completed

\* The store a toggle_subtask or add_task request leads to when it runs
\* alone.
RequestAlone(db, r) ==
    IF r.op = "toggle_subtask"
    THEN toggle_subtask(db, RaceUser, r.arg).db
    ELSE add_task(db, RaceUser, r.form).db

\* The stores two such requests lead to when one runs after the other.
InSomeOrder(db, r1, r2) ==
    {RequestAlone(RequestAlone(db, r1), r2), RequestAlone(RequestAlone(db, r2), r1)}

\* Both requests are toggle_subtask, on two subtasks of one task.
TwoTogglesOfOneTask ==
    /\ reqs[1].op = "toggle_subtask" /\ reqs[2].op = "toggle_subtask"
    /\ reqs[1].arg # reqs[2].arg
    /\ reqs[1].arg \in DOMAIN RaceStore.subtasks
    /\ reqs[2].arg \in DOMAIN RaceStore.subtasks
    /\ RaceStore.subtasks[reqs[1].arg].task_id = RaceStore.subtasks[reqs[2].arg].task_id

TwoAddTasks == reqs[1].op = "add_task" /\ reqs[2].op = "add_task"

\* C23, the part on toggle_subtask: when two toggle_subtask requests on
\* different subtasks of one task have both finished, the store is one that
\* running them one after the other leads to, and the parent is complete
\* exactly when all its subtasks are.
C23_ConcurrentTogglesSerializable ==
    (AllDone /\ TwoTogglesOfOneTask) =>
       LET parent == RaceStore.subtasks[reqs[1].arg].task_id
       IN  /\ DB \in InSomeOrder(RaceStore, reqs[1], reqs[2])
           /\ tasks[parent].is_completed = AllSubtasksComplete(DB, parent)

\* C23: when two toggle_subtask requests on different subtasks of one task,
\* or two add_task requests of one user, have both finished, the store is
\* one that running them one after the other leads to; so the parent is
\* complete exactly when all its subtasks are, and the two new tasks carry
\* different order keys.
C23_ConcurrentCommandsSerializable ==
    /\ C23_ConcurrentTogglesSerializable
    /\ (AllDone /\ TwoAddTasks) =>
          /\ DB \in InSomeOrder(RaceStore, reqs[1], reqs[2])
          /\ \A a, b \in DOMAIN tasks \ DOMAIN RaceStore.tasks :
                a # b => tasks[a].order_index # tasks[b].order_index

\* C23 witness: two add_task requests have finished and the two tasks they
\* created carry the same order key.
C23_Witness ==
    /\ AllDone
    /\ TwoAddTasks
    /\ \E a, b \in DOMAIN tasks \ DOMAIN RaceStore.tasks :
          a # b /\ tasks[a].order_index = tasks[b].order_index

====
